---- MODULE Spec2Model ----
(***************************************************************************)
(* The job-orchestration engine of src/job: JobManager (job_manager.py)    *)
(* over one of the two backends of job_backend.py, as a state machine.     *)
(* Every coroutine is cut at its suspension points (the awaits that yield  *)
(* to the event loop); the code between two suspension points is one       *)
(* atomic action, as it is under asyncio's single-threaded scheduler.      *)
(* Durations (process run time, timeouts, the 0.2 s poll sleep, backoff,   *)
(* the 5 s cancel grace period) are not measured: an action that waits for *)
(* a delay is simply enabled, so every order of wake-ups is explored.      *)
(***************************************************************************)
EXTENDS Integers, Sequences, FiniteSets, TLC

\* ---- bounds of the model ----
\* The size of the workload of one run: the attempts the submitted retry
\* policies allow (1 + max_retries per job), plus the malformed specs, plus the
\* cancel() calls, plus the handler invocations that raise, plus the permits
\* beyond the first (max_concurrent - 1).
MaxWork == 3
\* The last millisecond of the clock; submissions are made at 0..MaxClock.
MaxClock == 1
\* The most handlers registered for one event.
MaxHandlers == 3
\* The largest backoff_seconds, jitter_seconds and max_retries of a retry
\* policy whose backoff delays are computed.
MaxBackoffSeconds == 3
MaxJitterSeconds == 3
MaxRetries == 3
\* ---- JobState (job_backend.py:19-24) ----
PENDING == "PENDING"
RUNNING == "RUNNING"
SUCCEEDED == "SUCCEEDED"
FAILED == "FAILED"
CANCELLED == "CANCELLED"
JobState == {PENDING, RUNNING, SUCCEEDED, FAILED, CANCELLED}

\* The states that end the poll loop (job_manager.py:107).
PollTerminal == {SUCCEEDED, FAILED, CANCELLED}

VARIABLES
    backend,         \* JobManager.backend: "proc" (LocalSubprocessBackend) or "callable"
    max_concurrent,  \* JobManager.max_concurrent
    persist_state_path, \* JobManager.persist_state_path: is a path configured
    facade,          \* "none": the callers are coroutines of one running event loop;
                     \* else the caller is a SyncJobClient on a thread without a loop:
                     \* "idle" between its calls, "submit" inside asyncio.run(submit),
                     \* "closing" when the coroutine handed to asyncio.run has ended
    jobs,            \* the Job objects created, in creation order: index -> Job record
    job_ids,         \* per Job object: its job_id, the key it was stored under in _jobs
    queue,           \* JobManager._queue
    sem,             \* JobManager._sem: free permits
    runner_task,     \* JobManager._runner_task: the _run_loop coroutine's position
    submits,         \* per job: position of the submit() call that created it
    loops,           \* per job: the _execute_with_retries task
    runs,            \* per job: one record per backend.submit that got past its assert
    procs,           \* LocalSubprocessBackend._procs: job id -> index into runs, 0 if absent
    tasks,           \* PythonCallableBackend._tasks: job id -> index into runs, 0 if absent
    cancels,         \* the cancel() calls made so far, in call order
    events,          \* per job: the on_submit, on_start, on_retry, on_finish emitted, in order
    snapshot,        \* the file at persist_state_path
    tmpfile,         \* the file at persist_state_path + ".tmp"
    written,         \* the job table as the last _persist that ran to its end read it
    crashed,         \* the manager's process died (inside _persist)
    nfaults,         \* handler invocations and snapshot writes that raised so far
    event_handlers,  \* JobManager._event_handlers[event] for one event: the handlers,
                     \* in registration order, each given by what calling it returns
    emit,            \* one operation (submit, cancel or a retry loop step) that emits
                     \* the event: its position, and the handler _emit is at
    calls,           \* what happened during that operation, in order
    futures,         \* the awaitables handlers returned that are not done yet
    backoff          \* the last backoff sleep of one job's retry loop: its policy,
                     \* attempt_idx, the jitter byte drawn and the delay slept

\* The manager's jobs and tasks.
job_vars == <<backend, max_concurrent, persist_state_path, facade, jobs, job_ids, queue, sem,
              runner_task, submits, loops, runs, procs, tasks, cancels, events, snapshot,
              tmpfile, written, crashed, nfaults>>

\* One emission of one event, handler by handler.
emit_vars == <<event_handlers, emit, calls, futures>>

vars == <<job_vars, emit_vars, backoff>>

JobIds == 1..Len(jobs)

\* ---- JobSpec (job_backend.py:33-55) ----
\* cmd: is a command given; callable: "none", "coro" (async def) or "sync";
\* timeout_seconds / runtime_limit_seconds: is the limit set.
JobSpec(cmd, callable, timeout, limit, retries) ==
    [cmd |-> cmd, callable |-> callable, timeout_seconds |-> timeout,
     runtime_limit_seconds |-> limit, max_retries |-> retries]

\* The retry policies and limits submitted. Whether a timeout elapses is the
\* environment's choice, so a spec the backend runs carries one (a spec without
\* behaves as one whose timeout never elapses). runtime_limit_seconds is read
\* only when an attempt failed with attempts left (job_manager.py:124), so it is
\* varied only where max_retries > 0.
Policies ==
    { <<l, r>> \in BOOLEAN \X (0..(MaxWork - 1)) : l => r > 0 }

\* The specs the callers submit to a manager over backend b. The shape the
\* backend runs (cmd for the process backend, an async or a sync callable for the
\* callable backend) comes with every policy; the two shapes that break "exactly one of
\* cmd or callable" (neither, both) come with the default policy and no timeout.
SpecInputs(b) ==
    { JobSpec(b = "proc", f, TRUE, p[1], p[2]) :
        f \in (IF b = "proc" THEN {"none"} ELSE {"coro", "sync"}), p \in Policies }
    \cup { JobSpec(FALSE, "none", FALSE, FALSE, 0),
           JobSpec(TRUE, "coro", FALSE, FALSE, 0) }

\* "Exactly one of cmd or callable must be provided" (job_backend.py:37).
ExactlyOne(spec) == spec.cmd # (spec.callable # "none")

\* Job (job_backend.py:57-70): the fields the manager and the backends write.
\* error is the text as a sequence of its parts, <<>> for None.
Job(spec) == [spec |-> spec, state |-> PENDING, attempts |-> 0, error |-> <<>>]

\* Job.to_dict as written by _persist: job id -> state name.
ToDict(jb) == [j \in 1..Len(jb) |-> jb[j].state]

\* _persist (job_manager.py:157): the document json.dump is given.
Persist(jb) == ToDict(jb)

\* A file: absent, a complete JSON document, or a truncated one (empty, or a
\* proper prefix of a document), which json.load rejects.
Absent == [kind |-> "absent", doc |-> <<>>]

Complete(doc) == [kind |-> "complete", doc |-> doc]

Truncated == [kind |-> "partial", doc |-> <<>>]

\* json.dump can encode the table (line 160): dataclasses.asdict keeps
\* spec.callable, a function object, and json has no encoding for one.
Serializable(jb) == \A j \in 1..Len(jb) : jb[j].spec.callable = "none"

\* A writer that opens and writes the file at persist_state_path itself.
WriteInPlace == "path"

\* The file that open(tmp, "w") truncates and json.dump writes (lines 158-160).
WriteTarget == "tmp"

\* The two files fs = [path, tmp] once the opened file holds content c.
WriteFile(fs, c) == [fs EXCEPT ![WriteTarget] = c]

\* os.replace(tmp, path) (line 161): one atomic rename.
Replace(fs) == [path |-> fs.tmp, tmp |-> Absent]

\* The ways one call of _persist with job table jb can end (job_manager.py:154-161):
\* the two files, exc ("none": it returned; an exception that left it; "crash":
\* the process died in it), and whether os.replace was done. Without a path
\* it returns at once. With a table json cannot encode, json.dump raises
\* TypeError after it wrote a prefix. Otherwise the call runs to its end, or the
\* process dies after open, after json.dump or after os.replace, or (while the
\* workload w allows) open, the write or os.replace raises OSError.
PersistOutcomes(jb, w) ==
    LET fs == [path |-> snapshot, tmp |-> tmpfile]
        opened == WriteFile(fs, Truncated)
        dumped == WriteFile(fs, Complete(Persist(jb)))
        End(f, e, d) == [path |-> f.path, tmp |-> f.tmp, exc |-> e, replaced |-> d]
    IN  IF ~persist_state_path
        THEN {End(fs, "none", FALSE)}
        ELSE IF ~Serializable(jb)
        THEN {End(opened, "TypeError", FALSE), End(opened, "crash", FALSE)}
        ELSE {End(Replace(dumped), "none", TRUE), End(Replace(dumped), "crash", TRUE)}
             \cup {End(f, "crash", FALSE) : f \in {opened, dumped}}
             \cup (IF w < MaxWork
                   THEN {End(f, "OSError", FALSE) : f \in {fs, opened, dumped}}
                   ELSE {})

\* The files, the process and the count of faults after _persist ended as o.
PersistEnd(o, jb) ==
    /\ snapshot' = o.path
    /\ tmpfile' = o.tmp
    /\ written' = IF o.replaced THEN Persist(jb) ELSE written
    /\ crashed' = (o.exc = "crash")
    /\ nfaults' = IF o.exc = "OSError" THEN nfaults + 1 ELSE nfaults

\* Where a coroutine is after its call of _persist ended as o: it went on to
\* `returned`, the exception left it, or it died inside the call.
AfterPersist(o, returned) ==
    IF o.exc = "none" THEN returned
    ELSE IF o.exc = "crash" THEN "persist" ELSE "raised"

\* os.getpid() (job_manager.py:152): the same in every call of one process.
Pid == 7

\* len(self._jobs) (job_manager.py:152): the number of keys of the table.
TableSize == Cardinality({job_ids[k] : k \in 1..Len(job_ids)})

\* base of _new_job_id (job_manager.py:150-151) for a spec without a name:
\* the first token of cmd, or the literal "job".
Base(spec) == IF spec.cmd THEN "cmd0" ELSE "job"

\* An id made of base, timestamp and pid only.
NewJobIdNoSeq(spec, ts) == <<Base(spec), "-", ts, "-", Pid>>

\* _new_job_id (job_manager.py:148-152) at millisecond ts: the text
\* f"{base}-{ts}-{pid}-{len(_jobs)+1}" as the sequence of its parts.
NewJobId(spec, ts) == <<Base(spec), "-", ts, "-", Pid, "-", TableSize + 1>>

\* int(time.time() * 1000) (job_manager.py:149) of a call made now, counted
\* from the first submit: the millisecond of the previous submit, or a later one.
Clock ==
    IF job_ids = <<>>
    THEN {0}
    ELSE LET last == job_ids[Len(job_ids)][3]
         IN  {ts \in {last, last + 1} : ts <= MaxClock}

\* attempts_left at the start of _execute_with_retries (job_manager.py:94).
AttemptsLeftInit(spec) == 1 + spec.max_retries

\* The workload a spec adds, and the workload so far, counted as MaxWork counts it.
SpecWork(spec) == 1 + spec.max_retries + (IF ExactlyOne(spec) THEN 0 ELSE 1)

RECURSIVE JobsWork(_)
JobsWork(jb) == IF jb = <<>> THEN 0 ELSE SpecWork(Head(jb).spec) + JobsWork(Tail(jb))

Work == JobsWork(jobs) + Len(cancels) + nfaults + (max_concurrent - 1)

\* A handler invocation returns (FALSE) or, while the workload w allows, raises (TRUE).
HandlerOutcomes(w) == IF w < MaxWork THEN {FALSE, TRUE} ELSE {FALSE}

\* A coroutine of the manager can take a step: the process lives and the event
\* loop the manager's tasks belong to is running.
InLoop == ~crashed /\ facade = "none"

\* asyncio.run (job_manager.py:174, 184) can be called: the process lives, and
\* the caller is a coroutine-free thread between two calls of SyncJobClient.
CanCall == ~crashed /\ facade \in {"none", "idle"}

Init ==
    /\ backend \in {"proc", "callable"}
    /\ max_concurrent \in 1..(MaxWork - 1)
    /\ persist_state_path \in BOOLEAN
    /\ facade \in {"none", "idle"}
    /\ jobs = <<>>
    /\ job_ids = <<>>
    /\ queue = <<>>
    /\ sem = max_concurrent
    /\ runner_task = [pc |-> "none", job_id |-> 0]
    /\ submits = <<>>
    /\ loops = <<>>
    /\ runs = <<>>
    /\ procs = <<>>
    /\ tasks = <<>>
    /\ cancels = <<>>
    /\ events = <<>>
    /\ snapshot = Absent
    /\ tmpfile = Absent
    /\ written = <<>>
    /\ crashed = FALSE
    /\ nfaults = 0
    /\ event_handlers = <<>>
    /\ emit = [pc |-> "before", h |-> 0]
    /\ calls = <<>>
    /\ futures = {}
    /\ backoff = [retry |-> [backoff_seconds |-> 0, jitter_seconds |-> 0],
                  attempt_idx |-> 0, byte |-> 0, delay |-> 0]

\* ---- JobManager.submit (job_manager.py:54-62) ----
\* Up to the first suspension: the id, the Job, the table entry and the on_submit
\* handlers. A handler that raises ends submit there (nothing catches it); one
\* that returns or suspends lets submit go on in SubmitResume.
Submit(spec) ==
    /\ CanCall
    /\ Work + SpecWork(spec) <= MaxWork
    /\ \E raised \in HandlerOutcomes(Work + SpecWork(spec)) :
        /\ jobs' = Append(jobs, Job(spec))
        /\ \E ts \in Clock : job_ids' = Append(job_ids, NewJobId(spec, ts))
        /\ events' = Append(events, <<"on_submit">>)
        /\ submits' = Append(submits, IF raised THEN "raised" ELSE "emit")
        /\ nfaults' = IF raised THEN nfaults + 1 ELSE nfaults
        /\ facade' = IF facade = "none" THEN facade
                     ELSE IF raised THEN "closing" ELSE "submit"
    /\ loops' = Append(loops, [pc |-> "none", attempts_left |-> 0,
                               attempt_idx |-> 0, exc |-> "none"])
    /\ runs' = Append(runs, <<>>)
    /\ procs' = Append(procs, 0)
    /\ tasks' = Append(tasks, 0)
    /\ UNCHANGED <<emit_vars, backoff, backend, max_concurrent, persist_state_path, queue, sem, runner_task, cancels, snapshot, tmpfile, written, crashed>>

\* _ensure_runner (job_manager.py:78-80): a _run_loop task is created when there
\* is none or the last one is done (it never returns; it is done once cancelled).
EnsureRunner(rt) ==
    IF rt.pc \in {"none", "cancelled"} THEN [pc |-> "get", job_id |-> 0] ELSE rt

\* The rest of submit: queue.put, _ensure_runner, _persist, return job_id.
SubmitResume(j) ==
    /\ ~crashed
    /\ facade \in {"none", "submit"}
    /\ facade' = (IF facade = "none" THEN facade ELSE "closing")
    /\ j \in JobIds
    /\ submits[j] = "emit"
    /\ queue' = Append(queue, j)
    /\ runner_task' = EnsureRunner(runner_task)
    /\ \E o \in PersistOutcomes(jobs, Work) :
        /\ PersistEnd(o, jobs)
        /\ submits' = [submits EXCEPT ![j] =
                IF o.exc \in {"TypeError", "OSError"} THEN "persist_raised"
                ELSE AfterPersist(o, "returned")]
    /\ UNCHANGED <<emit_vars, backoff, backend, max_concurrent, persist_state_path, job_ids, jobs, sem, loops, runs, procs,
                   tasks, cancels, events>>

\* ---- JobManager._run_loop (job_manager.py:82-89) ----
\* The task created by asyncio.create_task(self._execute_with_retries(job)).
NewLoop(spec) == [pc |-> "start", attempts_left |-> AttemptsLeftInit(spec),
                  attempt_idx |-> 0, exc |-> "none"]

\* _run_loop from its position rt until it suspends: queue.get() suspends only on
\* an empty queue and sem.acquire() only with no free permit, so one wake-up
\* dispatches every queued job a permit is free for.
RECURSIVE RunLoopFrom(_, _, _, _)
RunLoopFrom(rt, q, s, lp) ==
    IF rt.pc = "get"
    THEN IF q = <<>>
         THEN [runner_task |-> rt, queue |-> q, sem |-> s, loops |-> lp]
         ELSE IF Head(q) \notin JobIds
              THEN RunLoopFrom(rt, Tail(q), s, lp)
              ELSE RunLoopFrom([pc |-> "acquire", job_id |-> Head(q)], Tail(q), s, lp)
    ELSE IF s = 0
         THEN [runner_task |-> rt, queue |-> q, sem |-> s, loops |-> lp]
         ELSE RunLoopFrom([pc |-> "get", job_id |-> 0], q, s - 1,
                          [lp EXCEPT ![rt.job_id] = NewLoop(jobs[rt.job_id].spec)])

RunLoop ==
    /\ InLoop
    /\ \/ runner_task.pc = "get" /\ queue # <<>>
       \/ runner_task.pc = "acquire" /\ sem > 0
    /\ LET r == RunLoopFrom(runner_task, queue, sem, loops) IN
        /\ runner_task' = r.runner_task
        /\ queue' = r.queue
        /\ sem' = r.sem
        /\ loops' = r.loops
    /\ UNCHANGED <<emit_vars, backoff, backend, max_concurrent, persist_state_path, facade, job_ids, jobs, submits, runs, procs, tasks,
                   cancels, events, snapshot, tmpfile, written, crashed, nfaults>>

\* ---- SyncJobClient (job_manager.py:167-184) ----
\* The end of asyncio.run(self.mgr.submit(spec)) (line 174), once the submit
\* coroutine has ended. The _run_loop task that submit created was made
\* runnable before the loop was told to stop, so it runs one stretch: it takes
\* the queued jobs it has permits for and creates their retry tasks. Then
\* asyncio.run cancels every task left and closes the loop: the _run_loop task
\* is cancelled where it waits, and a retry task, which has not run yet, is
\* cancelled before its first step, so its `finally` never runs and its permit
\* is not released.
RunClose ==
    /\ ~crashed
    /\ facade = "closing"
    /\ LET r == IF runner_task.pc \in {"get", "acquire"}
                THEN RunLoopFrom(runner_task, queue, sem, loops)
                ELSE [runner_task |-> runner_task, queue |-> queue, sem |-> sem,
                      loops |-> loops]
       IN  /\ queue' = r.queue
           /\ sem' = r.sem
           /\ runner_task' = IF runner_task.pc = "none" THEN runner_task
                             ELSE [pc |-> "cancelled", job_id |-> 0]
           /\ loops' = [j \in DOMAIN r.loops |->
                           IF r.loops[j].pc = "start"
                           THEN [r.loops[j] EXCEPT !.pc = "cancelled"]
                           ELSE r.loops[j]]
    /\ facade' = "idle"
    /\ UNCHANGED <<emit_vars, backoff, backend, max_concurrent, persist_state_path, job_ids, jobs, submits,
                   runs, procs, tasks, cancels, events, snapshot, tmpfile, written,
                   crashed, nfaults>>

\* SyncJobClient.wait (job_manager.py:176-181) returns the job: the state it
\* reads from status is one of the three it waits for.
WaitReturns(j) == jobs[j].state \in {SUCCEEDED, FAILED, CANCELLED}

\* ---- JobManager._execute_with_retries (job_manager.py:91-138) ----
\* Each operator below is a stretch of the coroutine for job j that runs without
\* suspending, given the job table jb, the event log ev and the task record lp
\* as the stretch found them. All of them set jobs, events, loops, sem, snapshot
\* and nfaults.

\* Position of the task after on_finish was emitted: `return` (lines 114, 121, 129).
Returned == "done"

\* The task is suspended at `at` ("spawning", "poll", or "start" for the backoff sleep).
Suspend(j, jb, ev, lp, at) ==
    /\ jobs' = jb
    /\ events' = ev
    /\ loops' = [loops EXCEPT ![j] = [lp EXCEPT !.pc = at]]
    /\ UNCHANGED <<sem, snapshot, tmpfile, written, crashed, nfaults>>

\* An exception leaves the coroutine: only `finally: self._sem.release()` runs.
Raise(j, jb, ev, lp, exc) ==
    /\ jobs' = jb
    /\ events' = ev
    /\ loops' = [loops EXCEPT ![j] = [lp EXCEPT !.pc = "raised", !.exc = exc]]
    /\ sem' = sem + 1
    /\ nfaults' = IF exc = "handler" THEN nfaults + 1 ELSE nfaults
    /\ UNCHANGED <<snapshot, tmpfile, written, crashed>>

\* emit on_finish; _persist; return; finally release (lines 112-114, 119-121, 127-129).
Finish(j, jb, ev, lp) ==
    LET ev1 == [ev EXCEPT ![j] = Append(@, "on_finish")] IN
    \E raised \in HandlerOutcomes(Work) :
        IF raised
        THEN Raise(j, jb, ev1, lp, "handler")
        ELSE \E o \in PersistOutcomes(jb, Work) :
             /\ jobs' = jb
             /\ events' = ev1
             /\ loops' = [loops EXCEPT ![j] =
                    [lp EXCEPT !.pc = AfterPersist(o, Returned),
                               !.exc = IF o.exc = "none" THEN @ ELSE "persist"]]
             /\ PersistEnd(o, jb)
             /\ sem' = IF o.exc = "crash" THEN sem ELSE sem + 1

\* Backoff (lines 131-136): emit on_retry, then sleep; the sleeping task waits at
\* the top of the while loop.
Backoff(j, jb, ev, lp) ==
    LET ev1 == [ev EXCEPT ![j] = Append(@, "on_retry")] IN
    \E raised \in HandlerOutcomes(Work) :
        IF raised
        THEN Raise(j, jb, ev1, lp, "handler")
        ELSE Suspend(j, jb, ev1, lp, "start")

\* if job.state == JobState.SUCCEEDED (line 111).
IsSuccess(state) == state = SUCCEEDED

\* job.error = (job.error or "") + "\nRuntime limit exceeded" (line 126).
LimitMark(error) == Append(error, "Runtime limit exceeded")

\* Lines 111-136, entered when poll returned a state of PollTerminal. With
\* runtime_limit_seconds set the wall time may or may not be over the limit.
AfterPoll(j, jb, ev, lp) ==
    IF IsSuccess(jb[j].state)
    THEN Finish(j, jb, ev, lp)
    ELSE LET lp1 == [lp EXCEPT !.attempts_left = @ - 1] IN
         IF lp1.attempts_left <= 0
         THEN Finish(j, jb, ev, lp1)
         ELSE \E over \in (IF jb[j].spec.runtime_limit_seconds THEN BOOLEAN ELSE {FALSE}) :
                IF over
                THEN Finish(j, [jb EXCEPT ![j].error = LimitMark(@)], ev, lp1)
                ELSE Backoff(j, jb, ev, lp1)

\* Lines 105-109 once: poll returns job.state; a terminal state leaves the loop,
\* any other state sleeps 0.2 s.
Poll(j, jb, ev, lp) ==
    IF jb[j].state \in PollTerminal
    THEN AfterPoll(j, jb, ev, lp)
    ELSE Suspend(j, jb, ev, lp, "poll")

\* The assert at the head of backend.submit (job_backend.py:100, 179).
BackendAccepts(spec) ==
    IF backend = "proc" THEN spec.cmd ELSE spec.callable # "none"

\* One run of the callable backend: the _runner task and the invocation of the
\* callable it makes.
NewTaskRun == [task |-> "scheduled", call |-> "none", outcome |-> "none",
               cancel_requested |-> FALSE]

\* One run of the process backend: the child process and its _wait_and_finalize task.
NewProcRun == [proc |-> "alive", returncode |-> "None", signal |-> "none",
               finalizer |-> "wait", outcome |-> "none"]

\* Top of the while loop (lines 96-102), reached when the task first runs and
\* when a backoff sleep ends. PythonCallableBackend.submit (job_backend.py:178-220)
\* has no suspension point, so the first poll follows in the same stretch;
\* LocalSubprocessBackend.submit suspends in create_subprocess_exec.
LoopStart(j) ==
    /\ InLoop
    /\ j \in JobIds
    /\ loops[j].pc = "start"
    /\ LET lp == loops[j] IN
       IF lp.attempts_left <= 0
       THEN /\ loops' = [loops EXCEPT ![j].pc = "done"]
            /\ sem' = sem + 1
            /\ UNCHANGED <<jobs, events, snapshot, tmpfile, written, crashed, nfaults, runs, tasks>>
       ELSE LET lp1 == [lp EXCEPT !.attempt_idx = @ + 1]
                jb1 == [jobs EXCEPT ![j].attempts = lp1.attempt_idx]
                ev1 == [events EXCEPT ![j] = Append(@, "on_start")]
            IN  \E raised \in HandlerOutcomes(Work) :
                  IF raised
                  THEN Raise(j, jb1, ev1, lp1, "handler") /\ UNCHANGED <<runs, tasks>>
                  ELSE IF ~BackendAccepts(jb1[j].spec)
                  THEN Raise(j, jb1, ev1, lp1, "AssertionError") /\ UNCHANGED <<runs, tasks>>
                  ELSE IF backend = "proc"
                  THEN Suspend(j, jb1, ev1, lp1, "spawning") /\ UNCHANGED <<runs, tasks>>
                  ELSE /\ runs' = [runs EXCEPT ![j] = Append(@, NewTaskRun)]
                       /\ tasks' = [tasks EXCEPT ![j] = Len(runs[j]) + 1]
                       /\ Poll(j, jb1, ev1, lp1)
    /\ UNCHANGED <<emit_vars, backoff, backend, max_concurrent, persist_state_path, facade, job_ids, queue, runner_task, submits, procs, cancels>>

\* A run of the process backend whose command could not be launched:
\* create_subprocess_exec raised (job_backend.py:115), no process and no
\* _wait_and_finalize task exist.
NoProcRun == [proc |-> "none", returncode |-> "None", signal |-> "none",
              finalizer |-> "done", outcome |-> "launch_failed"]

\* LocalSubprocessBackend.submit when create_subprocess_exec ends. It returned a
\* process (job_backend.py:122-150): the process is registered, the job is
\* RUNNING, and the manager polls for the first time. Or it raised OSError (no
\* such command, no permission): nothing in submit or in _execute_with_retries
\* catches it.
LoopSpawned(j) ==
    /\ InLoop
    /\ j \in JobIds
    /\ loops[j].pc = "spawning"
    /\ \E launched \in BOOLEAN :
        IF launched
        THEN /\ runs' = [runs EXCEPT ![j] = Append(@, NewProcRun)]
             /\ procs' = [procs EXCEPT ![j] = Len(runs[j]) + 1]
             /\ Poll(j, [jobs EXCEPT ![j].state = RUNNING], events, loops[j])
        ELSE /\ runs' = [runs EXCEPT ![j] = Append(@, NoProcRun)]
             /\ procs' = procs
             /\ Raise(j, jobs, events, loops[j], "OSError")
    /\ UNCHANGED <<emit_vars, backoff, backend, max_concurrent, persist_state_path, facade, job_ids, queue, runner_task, submits, tasks, cancels>>

\* The poll loop after a 0.2 s sleep (lines 105-109); a poll that finds the job
\* still not terminal sleeps again and changes nothing.
LoopPoll(j) ==
    /\ InLoop
    /\ j \in JobIds
    /\ loops[j].pc = "poll"
    /\ jobs[j].state \in PollTerminal
    /\ Poll(j, jobs, events, loops[j])
    /\ UNCHANGED <<emit_vars, backoff, backend, max_concurrent, persist_state_path, facade, job_ids, queue, runner_task, submits, runs, procs,
                   tasks, cancels>>

RunIds(j) == 1..Len(runs[j])

\* ---- LocalSubprocessBackend (job_backend.py:91-167) ----
\* The exit status of a child process, 1 standing for every nonzero status (an
\* exit code or minus a signal number): a process left alone or sent SIGTERM,
\* which it may handle, ends with either; a killed one with a nonzero status.
ExitCodes(signal) == IF signal = "SIGKILL" THEN {1} ELSE {0, 1}

\* The child process of attempt i of job j exits: proc.returncode is set and the
\* tasks waiting in proc.wait() become runnable.
ProcExit(j, i) ==
    /\ InLoop
    /\ backend = "proc"
    /\ j \in JobIds
    /\ i \in RunIds(j)
    /\ runs[j][i].proc = "alive"
    /\ \E rc \in ExitCodes(runs[j][i].signal) :
        runs' = [runs EXCEPT ![j][i].proc = "exited", ![j][i].returncode = rc]
    /\ UNCHANGED <<emit_vars, backoff, backend, max_concurrent, persist_state_path, facade, job_ids, jobs, queue, sem, runner_task, submits,
                   loops, procs, tasks, cancels, events, snapshot, tmpfile, written, crashed, nfaults>>

\* A backend that hands a job whose process failed back as PENDING.
ExitStateRequeue(rc) == IF rc = 0 THEN SUCCEEDED ELSE PENDING

\* job.state = SUCCEEDED if rc == 0 else FAILED (job_backend.py:133).
ExitState(rc) == IF rc = 0 THEN SUCCEEDED ELSE FAILED

\* _wait_and_finalize when proc.wait() returned (job_backend.py:130-133, 141-146).
Finalize(j, i) ==
    /\ InLoop
    /\ backend = "proc"
    /\ j \in JobIds
    /\ i \in RunIds(j)
    /\ runs[j][i].finalizer = "wait"
    /\ runs[j][i].proc = "exited"
    /\ jobs' = [jobs EXCEPT ![j].state = ExitState(runs[j][i].returncode)]
    /\ runs' = [runs EXCEPT ![j][i].finalizer = "done",
                            ![j][i].outcome = "exited"]
    /\ procs' = [procs EXCEPT ![j] = 0]
    /\ UNCHANGED <<emit_vars, backoff, backend, max_concurrent, persist_state_path, facade, job_ids, queue, sem, runner_task, submits, loops,
                   tasks, cancels, events, snapshot, tmpfile, written, crashed, nfaults>>

\* _wait_and_finalize when wait_for timed out (job_backend.py:134-139): the error
\* and FAILED are written, the process is killed, and the task waits for it.
FinalizeTimeout(j, i) ==
    /\ InLoop
    /\ backend = "proc"
    /\ j \in JobIds
    /\ i \in RunIds(j)
    /\ jobs[j].spec.timeout_seconds
    /\ runs[j][i].finalizer = "wait"
    /\ runs[j][i].proc = "alive"
    /\ jobs' = [jobs EXCEPT ![j].error = <<"Attempt timed out">>, ![j].state = FAILED]
    /\ runs' = [runs EXCEPT ![j][i].signal = "SIGKILL", ![j][i].finalizer = "wait_killed",
                            ![j][i].outcome = "timeout"]
    /\ UNCHANGED <<emit_vars, backoff, backend, max_concurrent, persist_state_path, facade, job_ids, queue, sem, runner_task, submits, loops,
                   procs, tasks, cancels, events, snapshot, tmpfile, written, crashed, nfaults>>

\* _wait_and_finalize after the killed process was reaped (job_backend.py:140-146).
FinalizeKilled(j, i) ==
    /\ InLoop
    /\ backend = "proc"
    /\ j \in JobIds
    /\ i \in RunIds(j)
    /\ runs[j][i].finalizer = "wait_killed"
    /\ runs[j][i].proc = "exited"
    /\ runs' = [runs EXCEPT ![j][i].finalizer = "done"]
    /\ procs' = [procs EXCEPT ![j] = 0]
    /\ UNCHANGED <<emit_vars, backoff, backend, max_concurrent, persist_state_path, facade, job_ids, jobs, queue, sem, runner_task, submits,
                   loops, tasks, cancels, events, snapshot, tmpfile, written, crashed, nfaults>>

\* ---- PythonCallableBackend._runner (job_backend.py:185-217) ----
\* The task's first step: RUNNING, then the callable is invoked and awaited.
RunnerStart(j, i) ==
    /\ InLoop
    /\ backend = "callable"
    /\ j \in JobIds
    /\ i \in RunIds(j)
    /\ runs[j][i].task = "scheduled"
    /\ ~runs[j][i].cancel_requested
    /\ jobs' = [jobs EXCEPT ![j].state = RUNNING]
    /\ runs' = [runs EXCEPT ![j][i].task = "running", ![j][i].call = "executing"]
    /\ UNCHANGED <<emit_vars, backoff, backend, max_concurrent, persist_state_path, facade, job_ids, queue, sem, runner_task, submits, loops,
                   procs, tasks, cancels, events, snapshot, tmpfile, written, crashed, nfaults>>

\* The callable returned (lines 202-206) or raised (lines 210-215).
RunnerReturn(j, i) ==
    /\ InLoop
    /\ backend = "callable"
    /\ j \in JobIds
    /\ i \in RunIds(j)
    /\ runs[j][i].task = "running"
    /\ ~runs[j][i].cancel_requested
    /\ \E ok \in BOOLEAN :
        /\ jobs' = IF ok
                   THEN [jobs EXCEPT ![j].state = SUCCEEDED]
                   ELSE [jobs EXCEPT ![j].error = <<"Exception">>, ![j].state = FAILED]
        /\ runs' = [runs EXCEPT ![j][i].task = "done", ![j][i].call = "ended",
                                ![j][i].outcome = IF ok THEN "returned" ELSE "raised"]
    /\ UNCHANGED <<emit_vars, backoff, backend, max_concurrent, persist_state_path, facade, job_ids, queue, sem, runner_task, submits, loops,
                   procs, tasks, cancels, events, snapshot, tmpfile, written, crashed, nfaults>>

\* What becomes of the invocation when the task stops awaiting it (timeout or
\* cancellation): a coroutine is cancelled, a sync callable keeps running on its
\* executor thread.
Abandoned(spec, call) ==
    IF call = "executing" /\ spec.callable = "sync" THEN "executing"
    ELSE IF call = "executing" THEN "ended" ELSE call

\* wait_for timed out (lines 207-209).
RunnerTimeout(j, i) ==
    /\ InLoop
    /\ backend = "callable"
    /\ j \in JobIds
    /\ i \in RunIds(j)
    /\ jobs[j].spec.timeout_seconds
    /\ runs[j][i].task = "running"
    /\ ~runs[j][i].cancel_requested
    /\ jobs' = [jobs EXCEPT ![j].error = <<"Attempt timed out">>, ![j].state = FAILED]
    /\ runs' = [runs EXCEPT ![j][i].task = "done", ![j][i].outcome = "timeout",
                            ![j][i].call = Abandoned(jobs[j].spec, @)]
    /\ UNCHANGED <<emit_vars, backoff, backend, max_concurrent, persist_state_path, facade, job_ids, queue, sem, runner_task, submits, loops,
                   procs, tasks, cancels, events, snapshot, tmpfile, written, crashed, nfaults>>

\* task.cancel() reaches the task: CancelledError is no Exception, so only the
\* `finally` runs (line 217) and job.state is left as it was.
RunnerCancelled(j, i) ==
    /\ InLoop
    /\ backend = "callable"
    /\ j \in JobIds
    /\ i \in RunIds(j)
    /\ runs[j][i].task # "done"
    /\ runs[j][i].cancel_requested
    /\ runs' = [runs EXCEPT ![j][i].task = "done", ![j][i].outcome = "cancelled",
                            ![j][i].call = Abandoned(jobs[j].spec, @)]
    /\ UNCHANGED <<emit_vars, backoff, backend, max_concurrent, persist_state_path, facade, job_ids, jobs, queue, sem, runner_task, submits,
                   loops, procs, tasks, cancels, events, snapshot, tmpfile, written, crashed, nfaults>>

\* The executor thread of an abandoned sync callable returns.
ThreadEnd(j, i) ==
    /\ InLoop
    /\ backend = "callable"
    /\ j \in JobIds
    /\ i \in RunIds(j)
    /\ runs[j][i].task = "done"
    /\ runs[j][i].call = "executing"
    /\ runs' = [runs EXCEPT ![j][i].call = "ended"]
    /\ UNCHANGED <<emit_vars, backoff, backend, max_concurrent, persist_state_path, facade, job_ids, jobs, queue, sem, runner_task, submits,
                   loops, procs, tasks, cancels, events, snapshot, tmpfile, written, crashed, nfaults>>

\* ---- JobManager.cancel (job_manager.py:71-75) over backend.cancel ----
\* The end of backend.cancel (job_backend.py:166-167, 231-232) and the rest of
\* JobManager.cancel: on_cancel, _persist. cs is cancels with call c in it.
CancelEnd(cs, c, w) ==
    LET j == cs[c].job_id
        jb1 == [jobs EXCEPT ![j].state = CANCELLED]
    IN  \E raised \in HandlerOutcomes(w) :
          IF raised
          THEN /\ jobs' = jb1
               /\ cancels' = [cs EXCEPT ![c].pc = "raised"]
               /\ nfaults' = nfaults + 1
               /\ UNCHANGED <<snapshot, tmpfile, written, crashed>>
          ELSE \E o \in PersistOutcomes(jb1, w) :
               /\ jobs' = jb1
               /\ cancels' = [cs EXCEPT ![c].pc =
                      IF o.exc \in {"TypeError", "OSError"} THEN "persist_raised"
                      ELSE AfterPersist(o, "returned")]
               /\ PersistEnd(o, jb1)

\* proc.send_signal / proc.kill: the last signal the process was sent; a kill
\* already sent is not undone by a later SIGTERM.
Signalled(old, new) == IF old = "SIGKILL" THEN old ELSE new

\* Job j is enqueued and not yet dispatched: its id is in the queue, or _run_loop
\* took it from the queue and waits for a permit (job_manager.py:84-88).
Waiting(j) ==
    \/ \E k \in 1..Len(queue) : queue[k] = j
    \/ runner_task.pc = "acquire" /\ runner_task.job_id = j

\* cancel(job_id) up to its first suspension. LocalSubprocessBackend.cancel
\* (job_backend.py:155-167) signals and awaits a process that is registered and
\* has no returncode; PythonCallableBackend.cancel (job_backend.py:225-232)
\* cancels and awaits a task that is registered and not done. Otherwise
\* neither suspends. The record keeps what the job was doing at the call.
Cancel(j) ==
    /\ CanCall
    /\ Work < MaxWork
    /\ j \in JobIds
    /\ LET c == Len(cancels) + 1
           target == IF backend = "proc" THEN procs[j] ELSE tasks[j]
           rec == [job_id |-> j, pc |-> "called", run |-> target,
                   state_at_call |-> jobs[j].state,
                   attempt_at_call |-> Len(runs[j]),
                   waiting_at_call |-> Waiting(j),
                   in_backoff |-> (loops[j].pc = "start" /\ loops[j].attempt_idx > 0)]
       IN  IF backend = "proc" /\ target # 0 /\ runs[j][target].proc = "alive"
           THEN /\ runs' = [runs EXCEPT ![j][target].signal = Signalled(@, "SIGTERM")]
                /\ cancels' = Append(cancels, [rec EXCEPT !.pc = "wait_term"])
                /\ UNCHANGED <<jobs, snapshot, tmpfile, written, crashed, nfaults>>
           ELSE IF backend = "callable" /\ target # 0 /\ runs[j][target].task # "done"
           THEN /\ runs' = [runs EXCEPT ![j][target].cancel_requested = TRUE]
                /\ cancels' = Append(cancels, [rec EXCEPT !.pc = "wait_task"])
                /\ UNCHANGED <<jobs, snapshot, tmpfile, written, crashed, nfaults>>
           ELSE CancelEnd(Append(cancels, rec), c, Work + 1) /\ UNCHANGED runs
    /\ UNCHANGED <<emit_vars, backoff, backend, max_concurrent, persist_state_path, facade, job_ids, queue, sem, runner_task, submits, loops,
                   procs, tasks, events>>

\* The 5 s grace period ran out with the process alive (job_backend.py:162-165).
CancelGrace(c) ==
    /\ InLoop
    /\ c \in 1..Len(cancels)
    /\ cancels[c].pc = "wait_term"
    /\ LET j == cancels[c].job_id
           i == cancels[c].run
       IN  /\ runs[j][i].proc = "alive"
           /\ runs' = [runs EXCEPT ![j][i].signal = "SIGKILL"]
    /\ cancels' = [cancels EXCEPT ![c].pc = "wait_killed"]
    /\ UNCHANGED <<emit_vars, backoff, backend, max_concurrent, persist_state_path, facade, job_ids, jobs, queue, sem, runner_task, submits,
                   loops, procs, tasks, events, snapshot, tmpfile, written, crashed, nfaults>>

\* The awaited process exited, or the awaited task is done: cancel goes on to
\* its end.
CancelResume(c) ==
    /\ InLoop
    /\ c \in 1..Len(cancels)
    /\ LET j == cancels[c].job_id
           i == cancels[c].run
       IN  IF backend = "proc"
           THEN cancels[c].pc \in {"wait_term", "wait_killed"} /\ runs[j][i].proc = "exited"
           ELSE cancels[c].pc = "wait_task" /\ runs[j][i].task = "done"
    /\ CancelEnd(cancels, c, Work)
    /\ UNCHANGED <<emit_vars, backoff, backend, max_concurrent, persist_state_path, facade, job_ids, queue, sem, runner_task, submits, loops,
                   runs, procs, tasks, events>>

Next ==
    \/ \E spec \in SpecInputs(backend) : Submit(spec)
    \/ \E j \in JobIds : SubmitResume(j)
    \/ RunLoop
    \/ RunClose
    \/ \E j \in JobIds : LoopStart(j)
    \/ \E j \in JobIds : LoopSpawned(j)
    \/ \E j \in JobIds : LoopPoll(j)
    \/ \E j \in JobIds : \E i \in RunIds(j) : ProcExit(j, i)
    \/ \E j \in JobIds : \E i \in RunIds(j) : Finalize(j, i)
    \/ \E j \in JobIds : \E i \in RunIds(j) : FinalizeTimeout(j, i)
    \/ \E j \in JobIds : \E i \in RunIds(j) : FinalizeKilled(j, i)
    \/ \E j \in JobIds : \E i \in RunIds(j) : RunnerStart(j, i)
    \/ \E j \in JobIds : \E i \in RunIds(j) : RunnerReturn(j, i)
    \/ \E j \in JobIds : \E i \in RunIds(j) : RunnerTimeout(j, i)
    \/ \E j \in JobIds : \E i \in RunIds(j) : RunnerCancelled(j, i)
    \/ \E j \in JobIds : \E i \in RunIds(j) : ThreadEnd(j, i)
    \/ \E j \in JobIds : Cancel(j)
    \/ \E c \in 1..Len(cancels) : CancelGrace(c)
    \/ \E c \in 1..Len(cancels) : CancelResume(c)

Spec == Init /\ [][Next]_vars

(***************************************************************************)
(* JobManager._emit (job_manager.py:141-146), handler by handler. In Spec  *)
(* an emission is one step whose handlers return or raise; here one        *)
(* emission is followed through the list of the handlers of its event.     *)
(***************************************************************************)
\* What a handler is, by what calling it returns (EventCallback,
\* job_manager.py:17: None or an Awaitable): "plain", a function that returns
\* None; "raises", a function that raises; "coro", an `async def`, whose call
\* returns a coroutine; "future", a function that starts its work on the loop
\* and returns its Future or Task.
HandlerKinds == {"plain", "raises", "coro", "future"}

\* register (job_manager.py:49-52): the callback goes to the end of the list.
Register(kind) ==
    /\ emit.pc = "before"
    /\ Len(event_handlers) < MaxHandlers
    /\ event_handlers' = Append(event_handlers, kind)
    /\ UNCHANGED <<job_vars, backoff, emit, calls, futures>>

\* asyncio.iscoroutine(res) (job_manager.py:145): true of a coroutine object
\* only, not of a Future, a Task or another awaitable.
IsCoroutine(kind) == kind = "coro"

\* An _emit that awaits nothing a handler returns.
NotAwaited(kind) == FALSE

\* `await res` (job_manager.py:146) is reached for what a handler of this kind returned.
Awaited(kind) == IsCoroutine(kind)

\* The loop of _emit (job_manager.py:143-146) from handler h on, until it
\* suspends or the list is over: a plain handler runs to its end inside the
\* call; a future handler returns its awaitable, whose work is pending; what
\* is awaited suspends _emit until it is done; a handler that raises ends
\* _emit and the operation with it (nothing catches the exception). After the
\* last handler _emit returns and the operation that emitted the event goes on.
RECURSIVE EmitFrom(_, _, _)
EmitFrom(h, cl, fs) ==
    IF h > Len(event_handlers)
    THEN [emit |-> [pc |-> "continued", h |-> 0], calls |-> Append(cl, <<"continue", 0>>),
          futures |-> fs]
    ELSE LET kind == event_handlers[h]
             cl1 == Append(cl, <<"call", h>>)
         IN  IF kind = "plain"
             THEN EmitFrom(h + 1, Append(cl1, <<"end", h>>), fs)
             ELSE IF kind = "raises"
             THEN [emit |-> [pc |-> "raised", h |-> h], calls |-> Append(cl1, <<"raise", h>>),
                   futures |-> fs]
             ELSE IF Awaited(kind)
             THEN [emit |-> [pc |-> "await", h |-> h], calls |-> cl1, futures |-> fs]
             ELSE EmitFrom(h + 1, cl1, fs \cup {h})

\* The operation calls _emit (job_manager.py:58, 74, 99, 112, 135).
Emit ==
    /\ emit.pc = "before"
    /\ LET r == EmitFrom(1, calls, futures) IN
        /\ emit' = r.emit
        /\ calls' = r.calls
        /\ futures' = r.futures
    /\ UNCHANGED <<job_vars, backoff, event_handlers>>

\* The awaited coroutine of handler emit.h is done: it returned, and _emit goes
\* on with the next handler, or it raised, which ends _emit.
EmitResume ==
    /\ emit.pc = "await"
    /\ \E raised \in BOOLEAN :
        LET r == IF raised
                 THEN [emit |-> [pc |-> "raised", h |-> emit.h],
                       calls |-> Append(calls, <<"raise", emit.h>>), futures |-> futures]
                 ELSE EmitFrom(emit.h + 1, Append(calls, <<"end", emit.h>>), futures)
        IN  /\ emit' = r.emit
            /\ calls' = r.calls
            /\ futures' = r.futures
    /\ UNCHANGED <<job_vars, backoff, event_handlers>>

\* The work behind a Future or Task that a handler returned comes to its end.
FutureDone(h) ==
    /\ h \in futures
    /\ futures' = futures \ {h}
    /\ calls' = Append(calls, <<"end", h>>)
    /\ UNCHANGED <<job_vars, backoff, event_handlers, emit>>

EmitNext ==
    \/ \E kind \in HandlerKinds : Register(kind)
    \/ Emit
    \/ EmitResume
    \/ \E h \in 1..Len(event_handlers) : FutureDone(h)

EmitSpec == Init /\ [][EmitNext]_vars

(***************************************************************************)
(* The backoff delay of _execute_with_retries (job_manager.py:131-136).    *)
(* In Spec a backoff is a sleep of any length; here the length is          *)
(* computed. Seconds are exact fractions counted in units of 1/255 s, the  *)
(* grain of the jitter.                                                    *)
(***************************************************************************)
\* The divisor of the jitter byte (job_manager.py:134), which is the number of
\* units in a second.
JitterScale == 255

\* os.urandom(1)[0] (job_manager.py:134): one byte.
Bytes == 0..255

\* RetryPolicy (job_backend.py:26-30) with whole numbers of seconds.
RetryPolicy(backoff_seconds, jitter_seconds) ==
    [backoff_seconds |-> backoff_seconds, jitter_seconds |-> jitter_seconds]

RetryPolicies ==
    {RetryPolicy(b, jt) : b \in 0..MaxBackoffSeconds, jt \in 0..MaxJitterSeconds}

\* A backoff that grows by backoff_seconds with every attempt.
LinearBackoff(retry, attempt_idx) == retry.backoff_seconds * attempt_idx

\* backoff_seconds ** attempt_idx (job_manager.py:132), in seconds.
ExponentialBackoff(retry, attempt_idx) == retry.backoff_seconds ^ attempt_idx

\* The value passed to asyncio.sleep (job_manager.py:132-136), in units:
\* the exponential part, plus (byte / 255.0) * jitter_seconds when
\* jitter_seconds is not zero.
BackoffDelay(retry, attempt_idx, byte) ==
    LET base == JitterScale * ExponentialBackoff(retry, attempt_idx) IN
    IF retry.jitter_seconds # 0
    THEN base + byte * retry.jitter_seconds
    ELSE base

\* The retry loop of a job with policy retry backs off after its next failed
\* attempt: attempt_idx is one more than at the last backoff, and a new byte is drawn.
BackoffSleep(retry, byte) ==
    /\ backoff.attempt_idx < MaxRetries
    /\ backoff.attempt_idx > 0 => retry = backoff.retry
    /\ backoff' = [retry |-> retry, attempt_idx |-> backoff.attempt_idx + 1,
                   byte |-> byte,
                   delay |-> BackoffDelay(retry, backoff.attempt_idx + 1, byte)]
    /\ UNCHANGED <<job_vars, emit_vars>>

BackoffNext == \E retry \in RetryPolicies : \E byte \in Bytes : BackoffSleep(retry, byte)

\* One manager, its configuration fixed: the delay depends on the policy, the
\* attempt and the byte only.
BackoffInit ==
    /\ Init
    /\ backend = "proc"
    /\ max_concurrent = 1
    /\ ~persist_state_path
    /\ facade = "none"

BackoffSpec == BackoffInit /\ [][BackoffNext]_vars

(***************************************************************************)
(* Properties                                                              *)
(***************************************************************************)
Count(seq, e) == Cardinality({k \in 1..Len(seq) : seq[k] = e})

CancelIds == 1..Len(cancels)

\* The _execute_with_retries task of job j has ended and every backend task of
\* its attempts is over.
Quiet(j) ==
    /\ loops[j].pc \in {"done", "raised"}
    /\ \A i \in RunIds(j) :
        IF backend = "proc" THEN runs[j][i].finalizer = "done" ELSE runs[j][i].task = "done"

NoCancel(j) == \A c \in CancelIds : cancels[c].job_id # j

\* The _execute_with_retries task of job j returned: no exception left it.
LoopReturned(j) == loops[j].pc = "done"

\* What the environment did to attempt i of job j.
AttemptSucceeded(j, i) ==
    IF backend = "proc"
    THEN runs[j][i].outcome = "exited" /\ runs[j][i].returncode = 0
    ELSE runs[j][i].outcome = "returned"

AttemptFailed(j, i) ==
    IF backend = "proc"
    THEN \/ runs[j][i].outcome \in {"timeout", "launch_failed"}
         \/ runs[j][i].outcome = "exited" /\ runs[j][i].returncode # 0
    ELSE runs[j][i].outcome \in {"raised", "timeout"}

\* C1: with max_concurrent = K, at most K jobs have state RUNNING in every
\* reachable state, whatever the retry policies and the outcomes of the
\* attempts; stated for the runs in which cancel was never called.
C1_AtMostKRunning ==
    cancels = <<>> =>
        Cardinality({j \in JobIds : jobs[j].state = RUNNING}) <= max_concurrent

\* C2: once cancel(job_id) has returned for a job that was RUNNING or waiting in
\* backoff when it was called, no step starts a further attempt of that job: no
\* new pass of the retry loop, no backend.submit, no on_start, no on_retry.
C2_CancelBypassesRetries ==
    [][\A c \in CancelIds :
        LET j == cancels[c].job_id IN
        (/\ cancels[c].pc = "returned"
         /\ cancels[c].state_at_call = RUNNING \/ cancels[c].in_backoff)
        => /\ loops'[j].attempt_idx = loops[j].attempt_idx
           /\ Len(runs'[j]) = Len(runs[j])
           /\ Count(events'[j], "on_start") = Count(events[j], "on_start")
           /\ Count(events'[j], "on_retry") = Count(events[j], "on_retry")]_vars

\* SUCCEEDED, CANCELLED, and FAILED once the retry loop has returned.
TerminalJob(j) ==
    \/ jobs[j].state \in {SUCCEEDED, CANCELLED}
    \/ jobs[j].state = FAILED /\ loops[j].pc = "done"

\* C3: once a job is SUCCEEDED, terminally FAILED or CANCELLED, no step changes
\* its state.
C3_TerminalStatesFinal ==
    [][\A j \in JobIds : TerminalJob(j) => jobs'[j].state = jobs[j].state]_vars

\* C4: submit of a spec with neither or both of cmd and callable creates no Job:
\* every Job in the table has a spec with exactly one of them.
C4_InvalidSpecCreatesNoJob == \A j \in JobIds : ExactlyOne(jobs[j].spec)

\* The case of C5 for job j: the job ran to its end with no cancel and no
\* runtime limit, and every attempt it made failed.
AlwaysFailing(j) ==
    /\ Quiet(j)
    /\ NoCancel(j)
    /\ ~jobs[j].spec.runtime_limit_seconds
    /\ Len(runs[j]) >= 1
    /\ \A i \in RunIds(j) : AttemptFailed(j, i)

\* What C5 says of such a job, R being its max_retries.
RetriesExhausted(j) ==
    LET R == jobs[j].spec.max_retries IN
    /\ Len(runs[j]) = R + 1
    /\ Count(events[j], "on_start") = R + 1
    /\ Count(events[j], "on_retry") = R
    /\ Count(events[j], "on_finish") = 1
    /\ jobs[j].state = FAILED
    /\ jobs[j].attempts = R + 1

\* C5: a job with max_retries = R whose every attempt fails (no cancel, no
\* runtime limit) runs exactly R+1 attempts, emits on_start R+1 times, on_retry
\* R times, on_finish once, and ends FAILED with attempts = R+1.
C5_RetriesExhausted ==
    \A j \in JobIds : AlwaysFailing(j) => RetriesExhausted(j)

\* The counts of C5 for the jobs whose retry task returned (no handler raised,
\* every command was launched).
RetriesExhaustedIfReturned ==
    \A j \in JobIds : (AlwaysFailing(j) /\ LoopReturned(j)) => RetriesExhausted(j)

\* The spec's case of C5 is reached: max_retries = 2, three failed attempts.
ThreeAttemptsReached ==
    \E j \in JobIds :
        /\ AlwaysFailing(j)
        /\ LoopReturned(j)
        /\ jobs[j].spec.max_retries = 2
        /\ Len(runs[j]) = 3

\* Every cancel of job j was called when the job was in state st.
CancelledOnlyIn(j, st) ==
    \A c \in CancelIds : cancels[c].job_id = j => cancels[c].state_at_call = st

\* The case of C6 for job j: the job ran to its end and its first attempt
\* succeeded.
FirstTrySuccess(j) ==
    /\ Quiet(j)
    /\ Len(runs[j]) >= 1
    /\ AttemptSucceeded(j, 1)

\* What C6 says of such a job.
OneAttempt(j) ==
    /\ Count(events[j], "on_start") = 1
    /\ Count(events[j], "on_finish") = 1
    /\ Count(events[j], "on_retry") = 0
    /\ Len(runs[j]) = 1
    /\ jobs[j].state = SUCCEEDED
    /\ jobs[j].attempts = 1

\* C6: a job whose first attempt succeeds emits exactly one on_start and one
\* on_finish, no on_retry, and ends SUCCEEDED with attempts = 1. A cancel called
\* before the job was SUCCEEDED is left out (cancel is meant to end the job
\* CANCELLED); one called on the SUCCEEDED job is meant to change nothing.
C6_FirstTrySuccess ==
    \A j \in JobIds :
        (FirstTrySuccess(j) /\ CancelledOnlyIn(j, SUCCEEDED)) => OneAttempt(j)

\* The same for the jobs nobody cancelled, whatever the handlers did.
FirstTrySuccessIfNoCancel ==
    \A j \in JobIds : (FirstTrySuccess(j) /\ NoCancel(j)) => OneAttempt(j)

\* A first-try success of a job that had retries to spare is reached.
FirstTrySuccessReached ==
    \E j \in JobIds :
        FirstTrySuccess(j) /\ NoCancel(j) /\ jobs[j].spec.max_retries > 0

\* The event log e follows submit, start, (retry, start)*, finish.
InOrder(e) ==
    /\ e # <<>> => e[1] = "on_submit"
    /\ \A k \in 2..Len(e) :
        /\ e[k] # "on_submit"
        /\ e[k] = "on_start" => e[k - 1] \in {"on_submit", "on_retry"}
        /\ e[k] = "on_retry" => e[k - 1] = "on_start"
        /\ e[k] = "on_finish" => e[k - 1] = "on_start"

\* C7: per job the events are emitted in the order submit, start, (retry)*,
\* finish; nothing follows on_finish, and on_finish is emitted exactly once: at
\* most once at any time, and once when the _execute_with_retries task has ended.
\* Stated for the jobs whose spec has exactly one of cmd and callable.
C7_EventOrder ==
    \A j \in JobIds :
        ExactlyOne(jobs[j].spec) =>
            /\ InOrder(events[j])
            /\ Count(events[j], "on_finish") <= 1
            /\ loops[j].pc \in {"done", "raised"} => Count(events[j], "on_finish") = 1

\* The order of C7, with on_finish exactly once for the tasks that returned.
EventOrderIfReturned ==
    \A j \in JobIds :
        /\ InOrder(events[j])
        /\ Count(events[j], "on_finish") <= 1
        /\ LoopReturned(j) => Count(events[j], "on_finish") = 1

\* A job that went through a retry and finished is reached.
RetryThenFinishReached ==
    \E j \in JobIds :
        /\ Count(events[j], "on_retry") > 0
        /\ events[j][Len(events[j])] = "on_finish"
        /\ LoopReturned(j)

\* The process or the callable invocation of attempt i of job j is executing.
Executing(j, i) ==
    IF backend = "proc" THEN runs[j][i].proc = "alive" ELSE runs[j][i].call = "executing"

\* C8: at every instant at most one process or callable invocation of a given
\* job is executing; stated for the jobs cancel was never called for.
C8_OneAttemptAtATime ==
    \A j \in JobIds :
        NoCancel(j) => Cardinality({i \in RunIds(j) : Executing(j, i)}) <= 1

\* C9: a handler fault never aborts the operation that emitted the event: no
\* submit call ends by raising with its job left out of the queue, and no retry
\* loop ends by a handler's exception.
C9_HandlerFaultIsolated ==
    \A j \in JobIds : submits[j] # "raised" /\ loops[j].exc # "handler"

\* C10: cancel of a RUNNING job leaves the job CANCELLED when it returns, and the
\* backend task of the attempt that was cancelled does not afterwards overwrite
\* CANCELLED.
C10_CancelYieldsCancelled ==
    [][\A c \in 1..Len(cancels') :
        LET j == cancels'[c].job_id
            i == cancels'[c].attempt_at_call
        IN  (cancels'[c].state_at_call = RUNNING /\ cancels'[c].pc = "returned")
            => IF c \in CancelIds /\ cancels[c].pc = "returned"
               THEN (jobs[j].state = CANCELLED /\ runs'[j][i] # runs[j][i])
                        => jobs'[j].state = CANCELLED
               ELSE jobs'[j].state = CANCELLED]_vars

\* No call of submit or cancel is in progress.
NoCallInProgress ==
    /\ \A j \in JobIds : submits[j] # "emit"
    /\ \A c \in CancelIds : cancels[c].pc \notin {"called", "wait_term", "wait_killed", "wait_task"}

\* Nothing has failed so far: the process lives, no handler and no snapshot
\* write raised, json can encode every spec, and no exception left a retry loop.
NothingFailed ==
    /\ ~crashed
    /\ nfaults = 0
    /\ Serializable(jobs)
    /\ \A j \in JobIds : loops[j].exc = "none"

\* C11: a snapshot is written after every state transition of every job, so
\* whenever no manager operation is in progress the state status(job_id) returns
\* is the state the last written snapshot holds for the job. Stated for a
\* manager with a persist_state_path, in the runs in which nothing has failed.
C11_SnapshotMatchesStatus ==
    (persist_state_path /\ NoCallInProgress /\ NothingFailed /\ jobs # <<>>)
    => /\ snapshot.kind = "complete"
       /\ \A j \in DOMAIN snapshot.doc : snapshot.doc[j] = jobs[j].state

\* C12: in every reachable state, the states in which the process died at a
\* step inside _persist included, the file at persist_state_path is absent or
\* holds one complete snapshot, never a truncated one, and what it holds is the
\* job ids and states of the table as the last _persist that ran to its
\* os.replace read it.
C12_SnapshotAtomic ==
    /\ snapshot.kind \in {"absent", "complete"}
    /\ snapshot.kind = "complete" => snapshot.doc = written

\* The process died inside a later _persist, after json.dump began to write:
\* the temporary file is truncated, the snapshot of the earlier write is there.
CrashInsidePersistReached ==
    /\ crashed
    /\ tmpfile.kind = "partial"
    /\ snapshot.kind = "complete"
    /\ \E j \in JobIds : snapshot.doc[j] # jobs[j].state

\* C13: a failure to write the snapshot is not fatal: no exception of _persist
\* leaves submit, cancel or the retry loop.
C13_PersistFailureNotFatal ==
    /\ \A j \in JobIds : submits[j] # "persist_raised"
    /\ \A j \in JobIds : ~(loops[j].pc = "raised" /\ loops[j].exc = "persist")
    /\ \A c \in CancelIds : cancels[c].pc # "persist_raised"

\* C14: the job ids are unique: no two Job objects were stored under one key,
\* that is, no submit overwrote an entry of the table; also for submits of one
\* name in one millisecond whose on_submit handlers are suspended.
C14_JobIdsUnique ==
    \A j \in JobIds : \A k \in JobIds : j # k => job_ids[j] # job_ids[k]

\* Two submits of one base in one millisecond, both still suspended in their
\* on_submit handlers.
ConcurrentSubmitsReached ==
    \E j \in JobIds : \E k \in JobIds :
        /\ j < k
        /\ job_ids[j][1] = job_ids[k][1]
        /\ job_ids[j][3] = job_ids[k][3]
        /\ submits[j] = "emit"
        /\ submits[k] = "emit"

\* The retry task of job j was created: _run_loop took the job from the queue
\* and acquired its admission slot.
Dispatched(j) == loops[j].pc # "none"

\* C15: dispatch is FIFO in submission order: of two jobs, the one that entered
\* the job table first acquires its slot no later than the other, also while
\* on_submit handlers are suspended. Stated for the runs in which no handler
\* and no snapshot write raised.
C15_FifoDispatch ==
    nfaults = 0 =>
        \A j \in JobIds : \A k \in JobIds :
            (j < k /\ Dispatched(k)) => Dispatched(j)

\* The retry loop of job j stopped at the runtime limit: its task returned and
\* job.error carries the marker of job_manager.py:126.
StoppedAtLimit(j) ==
    /\ LoopReturned(j)
    /\ \E k \in 1..Len(jobs[j].error) : jobs[j].error[k] = "Runtime limit exceeded"

\* What C16 says of such a job: on_finish was emitted once and is the last
\* event (no on_retry, no on_start after the limit was hit), no attempt was
\* started that on_start did not announce, and the job is FAILED.
EndedFailedAtLimit(j) ==
    /\ Count(events[j], "on_finish") = 1
    /\ events[j][Len(events[j])] = "on_finish"
    /\ Len(runs[j]) = Count(events[j], "on_start")
    /\ jobs[j].state = FAILED

\* C16: once an attempt has ended without success with attempts left and the
\* wall time over runtime_limit_seconds, the loop starts no further attempt and
\* emits no on_retry; the job ends FAILED, its error carries the runtime-limit
\* marker, and on_finish is emitted exactly once. Stated for the jobs cancel
\* was never called for.
C16_RuntimeLimitStops ==
    \A j \in JobIds : (StoppedAtLimit(j) /\ NoCancel(j)) => EndedFailedAtLimit(j)

\* The same on the process backend, whose submit sets RUNNING before the first
\* poll, so that no poll reads the state an earlier attempt left.
RuntimeLimitStopsProc ==
    backend = "proc" => C16_RuntimeLimitStops

\* A job of the process backend that stopped at the runtime limit is reached.
StoppedAtLimitReached ==
    \E j \in JobIds : backend = "proc" /\ StoppedAtLimit(j) /\ NoCancel(j)

\* C17: a fault of the backend while it starts or runs an attempt is recorded in
\* the Job and handled by the retry loop: no exception of backend.submit ends
\* the _execute_with_retries task of a job whose spec the backend accepts.
C17_BackendFaultsCaptured ==
    \A j \in JobIds :
        BackendAccepts(jobs[j].spec) => ~(loops[j].pc = "raised" /\ loops[j].exc = "OSError")

\* The job's retries are exhausted: the retry task returned after 1 + max_retries
\* attempts that all failed, with no cancel and no runtime limit, and the job
\* is FAILED.
EndedExhausted(j) ==
    /\ ExactlyOne(jobs[j].spec)
    /\ AlwaysFailing(j)
    /\ LoopReturned(j)
    /\ Len(runs[j]) = 1 + jobs[j].spec.max_retries
    /\ jobs[j].state = FAILED

\* job.error is set and is the text of an attempt that ended as `outcome`: the
\* timeout text exactly for a timed-out attempt.
DescribesAttempt(error, outcome) ==
    /\ error # <<>>
    /\ (error = <<"Attempt timed out">>) <=> (outcome = "timeout")

\* C18: a job that ends FAILED by exhausting its retries carries the error text
\* of its last attempt: job.error is set and describes how the last attempt
\* failed, not an earlier one.
C18_LastAttemptError ==
    \A j \in JobIds :
        EndedExhausted(j) =>
            DescribesAttempt(jobs[j].error, runs[j][Len(runs[j])].outcome)

\* A live task of the manager has job j in its hands: the job's retry task, or
\* the _run_loop task while the job waits for it.
InLiveTask(j) ==
    \/ loops[j].pc \in {"start", "spawning", "poll"}
    \/ loops[j].pc = "none" /\ runner_task.pc \in {"get", "acquire"}

\* C19: a job submitted with SyncJobClient.submit is dispatched and run, so that
\* SyncJobClient.wait returns it in a terminal state: once the call of submit
\* has returned the job id, the job is terminal or a live task of the manager
\* has it in its hands. Stated for the jobs cancel was never called for.
C19_SyncSubmitRuns ==
    \A j \in JobIds :
        (facade = "idle" /\ submits[j] = "returned" /\ NoCancel(j))
        => (WaitReturns(j) \/ InLiveTask(j))

\* The case of C20 for job j: the job ran to its end, nobody cancelled it, and
\* its last attempt timed out.
EndedAfterTimeout(j) ==
    /\ Quiet(j)
    /\ NoCancel(j)
    /\ Len(runs[j]) >= 1
    /\ runs[j][Len(runs[j])].outcome = "timeout"

\* What C20 says of such a job: the timeout is recorded (FAILED, the timeout
\* text first in job.error), and the job ended because its retries were
\* exhausted or because the runtime limit was hit.
TimeoutWasRetried(j) ==
    /\ jobs[j].state = FAILED
    /\ jobs[j].error # <<>>
    /\ jobs[j].error[1] = "Attempt timed out"
    /\ \/ Len(runs[j]) = 1 + jobs[j].spec.max_retries
       \/ jobs[j].error[Len(jobs[j].error)] = "Runtime limit exceeded"

\* C20: a per-attempt timeout ends only that attempt and counts as a failure
\* eligible for retry: a job whose retry task has ended and no attempt of which
\* followed its timed-out attempt is FAILED with the timeout error and has
\* exhausted its retries or hit the runtime limit.
C20_TimeoutIsRetried ==
    \A j \in JobIds : EndedAfterTimeout(j) => TimeoutWasRetried(j)

\* The same for the jobs of the process backend (whose first poll never reads
\* the state of an earlier attempt) whose retry task returned.
TimeoutIsRetriedProc ==
    \A j \in JobIds :
        (backend = "proc" /\ EndedAfterTimeout(j) /\ LoopReturned(j)) => TimeoutWasRetried(j)

\* A job that was retried after a timeout and whose last attempt timed out
\* too is reached.
TimeoutRetriedReached ==
    \E j \in JobIds :
        /\ backend = "proc"
        /\ EndedAfterTimeout(j)
        /\ LoopReturned(j)
        /\ Len(runs[j]) >= 2
        /\ runs[j][1].outcome = "timeout"

\* The place in calls of the entry <<tag, h>>, 0 if there is none.
Pos(tag, h) ==
    IF \E k \in 1..Len(calls) : calls[k] = <<tag, h>>
    THEN CHOOSE k \in 1..Len(calls) : calls[k] = <<tag, h>>
    ELSE 0

\* Handler g was invoked, and what it did was over, before `at`, a place in calls.
OverBefore(g, at) ==
    /\ Pos("call", g) # 0
    /\ Pos("end", g) # 0
    /\ Pos("call", g) < Pos("end", g)
    /\ Pos("end", g) < at

\* The handler itself suspends or runs to its end: a plain function or an
\* `async def`, as opposed to a function that hands back a Future.
RunsItself(kind) == kind \in {"plain", "raises", "coro"}

\* C21: for one event the handlers are invoked one at a time in registration
\* order, and a handler that suspends is awaited before the next handler is
\* invoked and before the operation that emitted the event goes on: when a
\* handler is invoked, every handler registered before it has been invoked,
\* and the ones that run themselves are over; the same when the operation goes on.
C21_HandlersSequential ==
    /\ \A h \in 1..Len(event_handlers) : \A g \in 1..(h - 1) :
        Pos("call", h) # 0 =>
            /\ Pos("call", g) # 0
            /\ Pos("call", g) < Pos("call", h)
            /\ RunsItself(event_handlers[g]) => OverBefore(g, Pos("call", h))
    /\ emit.pc = "continued" =>
        \A g \in 1..Len(event_handlers) :
            /\ Pos("call", g) # 0
            /\ Pos("call", g) < Pos("continue", 0)
            /\ RunsItself(event_handlers[g]) => OverBefore(g, Pos("continue", 0))

\* The same of every handler, the ones that return a Future or Task included:
\* the work such a handler started is over before the next handler is invoked.
EveryAwaitableAwaited ==
    /\ \A h \in 1..Len(event_handlers) : \A g \in 1..(h - 1) :
        Pos("call", h) # 0 => OverBefore(g, Pos("call", h))
    /\ emit.pc = "continued" =>
        \A g \in 1..Len(event_handlers) : OverBefore(g, Pos("continue", 0))

\* An emission over three handlers has ended: a suspending one, then one that
\* returns a Future, then a suspending one.
SuspendingHandlersReached ==
    /\ emit.pc = "continued"
    /\ event_handlers = <<"coro", "future", "coro">>

\* backoff_seconds^i of the last backoff, in units.
LowerEnd == JitterScale * (backoff.retry.backoff_seconds ^ backoff.attempt_idx)

\* backoff_seconds^i + jitter_seconds of the last backoff, in units.
UpperEnd == LowerEnd + JitterScale * backoff.retry.jitter_seconds

\* C22 as stated: the delay between attempt i and attempt i+1 lies in the
\* half-open interval [backoff_seconds^i, backoff_seconds^i + jitter_seconds),
\* for every jitter byte.
C22_BackoffHalfOpen ==
    backoff.attempt_idx > 0 => (LowerEnd <= backoff.delay /\ backoff.delay < UpperEnd)

\* C22 amended: the delay between attempt i and attempt i+1 lies in the closed
\* interval [backoff_seconds^i, backoff_seconds^i + jitter_seconds], for every
\* jitter byte and every policy with backoff_seconds >= 0 and jitter_seconds >= 0.
C22_BackoffClosed ==
    backoff.attempt_idx > 0 => (LowerEnd <= backoff.delay /\ backoff.delay <= UpperEnd)

\* The upper end is reached: before a third attempt, with jitter, byte 255 was drawn.
UpperEndReached ==
    /\ backoff.attempt_idx = 2
    /\ backoff.retry.backoff_seconds > 1
    /\ backoff.retry.jitter_seconds > 0
    /\ backoff.byte = 255
    /\ backoff.delay = UpperEnd

\* The backend run of attempt i of job j has written its outcome.
AttemptOver(j, i) == runs[j][i].outcome # "none"

\* The retry loop of job j has left the poll loop of its latest attempt: the last
\* event it emitted is the on_finish or the on_retry that follows the poll loop.
LeftPollLoop(j) ==
    /\ events[j] # <<>>
    /\ events[j][Len(events[j])] \in {"on_finish", "on_retry"}

\* C23: the terminal state that ends the poll loop of attempt i is the outcome
\* the backend run of attempt i itself wrote, never the state attempt i-1
\* left: when the loop has left the poll loop of its latest attempt, the run of
\* that attempt is over. Stated for the jobs cancel was never called for.
C23_PollReadsOwnAttempt ==
    \A j \in JobIds :
        (LeftPollLoop(j) /\ NoCancel(j)) =>
            /\ Len(runs[j]) = loops[j].attempt_idx
            /\ AttemptOver(j, Len(runs[j]))

\* The same on the process backend, whose submit sets RUNNING before the first poll.
PollReadsOwnAttemptProc ==
    backend = "proc" => C23_PollReadsOwnAttempt

\* A job of the process backend that left the poll loop of a second attempt is reached.
SecondPollLoopLeftReached ==
    \E j \in JobIds :
        backend = "proc" /\ LeftPollLoop(j) /\ NoCancel(j) /\ Len(runs[j]) = 2

\* The retry task of a job holds the job's admission slot: it was created
\* (after sem.acquire) and has not reached its `finally`.
HoldsSlot(lp) == lp.pc \in {"start", "spawning", "poll"}

\* The retry task has run its `finally: self._sem.release()`.
ReleasedSlot(lp) == lp.pc \in {"done", "raised"}

\* C24: a job's admission slot, acquired when the job is dispatched, is held
\* across all attempts and backoff delays and is released only when the job
\* has reached a terminal outcome: at the step that releases the slot the job
\* is SUCCEEDED, FAILED or CANCELLED, never PENDING or RUNNING. Stated for the
\* jobs whose spec has exactly one of cmd and callable.
C24_SlotHeldUntilTerminal ==
    [][\A j \in JobIds :
        (ExactlyOne(jobs[j].spec) /\ HoldsSlot(loops[j]) /\ ReleasedSlot(loops'[j]))
        => jobs'[j].state \in {SUCCEEDED, FAILED, CANCELLED}]_vars

\* The same for the retry tasks of the process backend that return.
SlotHeldUntilReturnProc ==
    [][\A j \in JobIds :
        (backend = "proc" /\ HoldsSlot(loops[j]) /\ loops'[j].pc = Returned)
        => jobs'[j].state \in {SUCCEEDED, FAILED, CANCELLED}]_vars

\* A job of the process backend released its slot after a retry.
ReleasedAfterRetryReached ==
    \E j \in JobIds :
        backend = "proc" /\ LoopReturned(j) /\ Count(events[j], "on_retry") > 0

\* The live _execute_with_retries tasks: created and not ended.
LiveLoops == {j \in JobIds : HoldsSlot(loops[j])}

\* C25: slot conservation: in every reachable state in which the manager's
\* process lives, the free permits of the semaphore plus the live
\* _execute_with_retries tasks equal max_concurrent, so that no permit is
\* leaked and the permits never exceed max_concurrent.
C25_SlotConservation ==
    ~crashed => sem + Cardinality(LiveLoops) = max_concurrent

\* The same for a manager whose callers are coroutines of one running event loop.
SlotConservationInLoop ==
    facade = "none" => C25_SlotConservation

\* Both permits of a manager in one event loop are taken.
AllPermitsTakenReached ==
    facade = "none" /\ max_concurrent = 2 /\ sem = 0

\* C26: when an attempt of the process backend exceeds timeout_seconds, the
\* backend first sends the graceful termination signal and force-kills only
\* after a grace period: the step that kills the process of a timed-out
\* attempt finds it already sent SIGTERM. Stated for the jobs cancel was never
\* called for, whose processes nobody else signals.
C26_TimeoutTermThenKill ==
    [][\A j \in JobIds : \A i \in RunIds(j) :
        (/\ backend = "proc"
         /\ NoCancel(j)
         /\ runs'[j][i].outcome = "timeout"
         /\ runs[j][i].signal # "SIGKILL"
         /\ runs'[j][i].signal = "SIGKILL")
        => runs[j][i].signal = "SIGTERM"]_vars

\* cancel call c was made while its job was PENDING, enqueued and not yet
\* dispatched, and it has returned.
CancelledWhilePending(c) ==
    /\ cancels[c].pc = "returned"
    /\ cancels[c].state_at_call = PENDING
    /\ cancels[c].waiting_at_call

\* C27: a job cancelled while it was still PENDING and not yet dispatched is
\* never run afterwards: no on_start is emitted for it, backend.submit is not
\* called for it, and its state stays CANCELLED. Stated for the jobs whose
\* spec has exactly one of cmd and callable.
C27_PendingCancelNeverRuns ==
    \A c \in CancelIds :
        LET j == cancels[c].job_id IN
        (CancelledWhilePending(c) /\ ExactlyOne(jobs[j].spec)) =>
            /\ Count(events[j], "on_start") = 0
            /\ runs[j] = <<>>
            /\ jobs[j].state = CANCELLED

\* C28: the lifecycle never revisits PENDING: a job is PENDING when submit
\* creates it, and once its state is another one no step makes it PENDING
\* again, across retries, timeouts and cancels.
C28_NeverPendingAgain ==
    [][/\ \A j \in JobIds : jobs[j].state # PENDING => jobs'[j].state # PENDING
       /\ \A j \in 1..Len(jobs') : j \notin JobIds => jobs'[j].state = PENDING]_vars

\* A job of the process backend is in its second attempt after the first one
\* failed, and was cancelled meanwhile.
SecondAttemptAfterCancelReached ==
    \E j \in JobIds :
        /\ backend = "proc"
        /\ Len(runs[j]) = 2
        /\ AttemptFailed(j, 1)
        /\ ~NoCancel(j)
        /\ jobs[j].state = RUNNING
====
